---- MODULE Spec2Model ----
(***************************************************************************)
(* A model of src/task.py: the validated fields (Name, Phone, Birthday),   *)
(* Record, AddressBook (add_record, find, get_upcoming_birthdays) and the  *)
(* `add` command handler add_contact wrapped by input_error.               *)
(*                                                                         *)
(* Python values are modelled as records [type, val].  A str is the        *)
(* sequence of its characters; a character is a one-element token, where   *)
(* "sup2" stands for U+00B2 SUPERSCRIPT TWO (str.isdigit() is True for it, *)
(* it is no decimal digit).  A call either returns ([ok |-> TRUE, ...]) or *)
(* raises ([ok |-> FALSE, exc |-> type, msg |-> text]).                    *)
(***************************************************************************)
EXTENDS Integers, Sequences, FiniteSets, TLC

\* objs:  the Record objects created so far; a Record is known by its index.
\* data:  AddressBook.data, the (key, Record) items in insertion order.
\* ret:   the last call: its name, its arguments (without self) and its outcome.
\* added: history, per name: the Record last passed to add_record under it
\*        and the Record that call replaced.
VARIABLES objs, data, ret, added

vars == <<objs, data, ret, added>>

(***************************************************************************)
(* Python values and call outcomes                                         *)
(***************************************************************************)
PyStr(s) == [type |-> "str", val |-> s]

PyInt(s) == [type |-> "int", val |-> s]

None == [type |-> "NoneType", val |-> <<>>]

Return(v) == [ok |-> TRUE, val |-> v, exc |-> "", msg |-> ""]

Raise(e, m) == [ok |-> FALSE, val |-> None, exc |-> e, msg |-> m]

AsciiDigits == {"0", "1", "2", "3", "4", "5", "6", "7", "8", "9"}

\* Characters c with c.isdigit(): Numeric_Type Decimal or Digit.
IsDigitChar(c) == c \in AsciiDigits \cup {"sup2"}

\* str.isdigit(): at least one character and all of them digits.
isdigit(s) == Len(s) > 0 /\ \A i \in 1..Len(s) : IsDigitChar(s[i])

\* int() of one ASCII digit.
DigitVal(c) ==
  CASE c = "0" -> 0 [] c = "1" -> 1 [] c = "2" -> 2 [] c = "3" -> 3
    [] c = "4" -> 4 [] c = "5" -> 5 [] c = "6" -> 6 [] c = "7" -> 7
    [] c = "8" -> 8 [] c = "9" -> 9

DigitChar(n) ==
  CASE n = 0 -> "0" [] n = 1 -> "1" [] n = 2 -> "2" [] n = 3 -> "3"
    [] n = 4 -> "4" [] n = 5 -> "5" [] n = 6 -> "6" [] n = 7 -> "7"
    [] n = 8 -> "8" [] n = 9 -> "9"

(***************************************************************************)
(* Phone                                                                   *)
(***************************************************************************)
PhoneLen == 10

PhoneError == "Phone number must be 10 digits."

\* Phone.__init__: the field holding value, or ValueError.
Phone(value) ==
  IF value.type = "str" /\ isdigit(value.val) /\ Len(value.val) = PhoneLen
  THEN Return(value)
  ELSE Raise("ValueError", PhoneError)

(***************************************************************************)
(* datetime.date                                                           *)
(***************************************************************************)
Date(y, m, d) == [year |-> y, month |-> m, day |-> d]

IsLeap(y) == y % 4 = 0 /\ (y % 100 # 0 \/ y % 400 = 0)

DaysInMonth(y, m) ==
  IF m = 2 THEN (IF IsLeap(y) THEN 29 ELSE 28)
  ELSE IF m \in {4, 6, 9, 11} THEN 30 ELSE 31

\* The validation date.__new__ makes of its fields.
IsDate(y, m, d) ==
  /\ y \in 1..9999
  /\ m \in 1..12
  /\ d \in 1..DaysInMonth(y, m)

DaysBeforeYear(y) ==
  (y - 1) * 365 + ((y - 1) \div 4) - ((y - 1) \div 100) + ((y - 1) \div 400)

RECURSIVE DaysBeforeMonth(_, _)
DaysBeforeMonth(y, m) ==
  IF m = 1 THEN 0 ELSE DaysBeforeMonth(y, m - 1) + DaysInMonth(y, m - 1)

\* date.toordinal(): 1 is 0001-01-01.
toordinal(dt) == DaysBeforeYear(dt.year) + DaysBeforeMonth(dt.year, dt.month) + dt.day

\* date.fromordinal(n), the inverse of toordinal.
fromordinal(n) ==
  LET y == CHOOSE yy \in ((n \div 366) .. (n \div 365 + 1)) :
             DaysBeforeYear(yy) < n /\ n <= DaysBeforeYear(yy + 1)
      r == n - DaysBeforeYear(y)
      m == CHOOSE mm \in 1..12 :
             DaysBeforeMonth(y, mm) < r /\ r <= DaysBeforeMonth(y, mm) + DaysInMonth(y, mm)
  IN  Date(y, m, r - DaysBeforeMonth(y, m))

\* date.weekday(): Monday is 0, Sunday is 6.
weekday(dt) == (toordinal(dt) + 6) % 7

\* date.__lt__: by (year, month, day).
DateLt(a, b) ==
  \/ a.year < b.year
  \/ a.year = b.year /\ a.month < b.month
  \/ a.year = b.year /\ a.month = b.month /\ a.day < b.day

\* (a - b).days
DaysBetween(a, b) == toordinal(a) - toordinal(b)

\* dt + timedelta(days = k)
AddDays(dt, k) == fromordinal(toordinal(dt) + k)

\* dt.replace(year = y): the date, or ValueError when it does not exist.
replace_year(dt, y) ==
  IF IsDate(y, dt.month, dt.day)
  THEN Return(Date(y, dt.month, dt.day))
  ELSE Raise("ValueError", "day is out of range for month")

Pad2(n) == <<DigitChar(n \div 10), DigitChar(n % 10)>>

Pad4(n) ==
  <<DigitChar(n \div 1000), DigitChar((n \div 100) % 10),
    DigitChar((n \div 10) % 10), DigitChar(n % 10)>>

\* dt.strftime("%d.%m.%Y") for a four-digit year.
strftime(dt) == Pad2(dt.day) \o <<".">> \o Pad2(dt.month) \o <<".">> \o Pad4(dt.year)

(***************************************************************************)
(* datetime.strptime(value, '%d.%m.%Y')                                    *)
(*                                                                         *)
(* The format compiles to the regular expression                           *)
(*   (3[0-1]|[1-2]\d|0[1-9]|[1-9]| [1-9])\.(1[0-2]|0[1-9]|[1-9])\.(\d\d\d\d) *)
(* matched at the start of the text; alternatives are tried in order.      *)
(***************************************************************************)
At(s, i) == IF i \in 1..Len(s) THEN s[i] ELSE "EOS"

NonZeroDigits == AsciiDigits \ {"0"}

\* The length the k-th alternative of %d consumes at position i, 0 for no match.
DayAlt(k, s, i) ==
  CASE k = 1 -> IF At(s, i) = "3" /\ At(s, i + 1) \in {"0", "1"} THEN 2 ELSE 0
    [] k = 2 -> IF At(s, i) \in {"1", "2"} /\ At(s, i + 1) \in AsciiDigits THEN 2 ELSE 0
    [] k = 3 -> IF At(s, i) = "0" /\ At(s, i + 1) \in NonZeroDigits THEN 2 ELSE 0
    [] k = 4 -> IF At(s, i) \in NonZeroDigits THEN 1 ELSE 0
    [] k = 5 -> IF At(s, i) = " " /\ At(s, i + 1) \in NonZeroDigits THEN 2 ELSE 0

\* The length the k-th alternative of %m consumes at position i, 0 for no match.
MonthAlt(k, s, i) ==
  CASE k = 1 -> IF At(s, i) = "1" /\ At(s, i + 1) \in {"0", "1", "2"} THEN 2 ELSE 0
    [] k = 2 -> IF At(s, i) = "0" /\ At(s, i + 1) \in NonZeroDigits THEN 2 ELSE 0
    [] k = 3 -> IF At(s, i) \in NonZeroDigits THEN 1 ELSE 0

\* The regular expression matches with alternatives kd of %d and km of %m.
MatchesWith(s, kd, km) ==
  LET ld == DayAlt(kd, s, 1)
      lm == MonthAlt(km, s, ld + 2)
      y0 == ld + lm + 3
  IN  /\ ld > 0
      /\ At(s, ld + 1) = "."
      /\ lm > 0
      /\ At(s, ld + lm + 2) = "."
      /\ \A j \in 0..3 : At(s, y0 + j) \in AsciiDigits

\* int() of the digits of s at positions i..j, leading blanks skipped.
RECURSIVE IntOf(_, _, _)
IntOf(s, i, j) ==
  IF j < i THEN 0
  ELSE IF s[j] = " " THEN 0
  ELSE IntOf(s, i, j - 1) * 10 + DigitVal(s[j])

StrptimeError == "Invalid date format. Use DD.MM.YYYY"

\* The pairs of alternatives of %d and %m with which the expression matches s.
Alternatives(s) == {p \in (1..5) \X (1..3) : MatchesWith(s, p[1], p[2])}

\* The pair the regular expression engine finds: the first in its order.
FirstAlternative(alts) ==
  CHOOSE q \in alts : \A r \in alts : q[1] < r[1] \/ (q[1] = r[1] /\ q[2] <= r[2])

\* The date of the fields d, m, y found, the match ending at position end of s.
FoundDate(s, end, d, m, y) ==
  IF Len(s) # end THEN Raise("ValueError", "unconverted data remains")
  ELSE IF ~IsDate(y, m, d) THEN Raise("ValueError", "day is out of range for month")
  ELSE Return(Date(y, m, d))

\* The match of s with a day of ld and a month of lm characters.
FoundFields(s, ld, lm) ==
  FoundDate(s, ld + lm + 6, IntOf(s, 1, ld), IntOf(s, ld + 2, ld + lm + 1),
            IntOf(s, ld + lm + 3, ld + lm + 6))

FoundWith(s, p) == FoundFields(s, DayAlt(p[1], s, 1), MonthAlt(p[2], s, DayAlt(p[1], s, 1) + 2))

StrptimeOf(s, alts) ==
  IF alts = {} THEN Raise("ValueError", "time data does not match format")
  ELSE FoundWith(s, FirstAlternative(alts))

\* datetime.strptime(value, '%d.%m.%Y').date(): the date, ValueError for a
\* str it does not accept, TypeError for anything that is no str.
strptime(value) ==
  IF value.type # "str" THEN Raise("TypeError", "strptime() argument 1 must be str")
  ELSE StrptimeOf(value.val, Alternatives(value.val))

\* Lines 28-32, r the outcome of strptime: the field holds value as given.
BirthdayOf(value, r) ==
  IF r.ok THEN Return(value)
  ELSE IF r.exc = "ValueError" THEN Raise("ValueError", StrptimeError)
  ELSE r

\* Birthday.__init__: the field, or ValueError.
Birthday(value) == BirthdayOf(value, strptime(value))

\* Field.__str__: str(self.value), the value itself when it is a str.
FieldStr(value) == value

(***************************************************************************)
(* Field, Name, Record                                                     *)
(***************************************************************************)
\* A Record object as a Python value.
Ref(i) == [type |-> "Record", val |-> i]

\* A message text, kept whole.
Text(m) == [type |-> "str", val |-> <<m>>]

\* A Name that refused the empty text.
NameNonEmpty(value) ==
  IF value.type = "str" /\ Len(value.val) > 0
  THEN Return(value)
  ELSE Raise("ValueError", "Name must be a non-empty string.")

\* Name(value): Field.__init__ stores the value, whatever it is.
Name(value) == Return(value)

\* Lines 37-39, n the outcome of Name(name).
RecordOf(n) ==
  IF n.ok THEN Return([name |-> n.val, phones |-> <<>>, birthday |-> None]) ELSE n

\* Record.__init__: the new object.
Record(name) == RecordOf(Name(name))

\* Line 42, p the outcome of Phone(phone_number): the heap after and the outcome.
AppendPhone(os, ref, p) ==
  IF p.ok
  THEN [objs |-> [os EXCEPT ![ref].phones = Append(@, p.val)], out |-> Return(None)]
  ELSE [objs |-> os, out |-> p]

\* Record.add_phone on object ref of heap os.
add_phone(os, ref, phone_number) == AppendPhone(os, ref, Phone(phone_number))

\* Line 45, b the outcome of Birthday(birthday_str).
SetBirthday(os, ref, b) ==
  IF b.ok
  THEN [objs |-> [os EXCEPT ![ref].birthday = b.val], out |-> Return(None)]
  ELSE [objs |-> os, out |-> b]

\* Record.add_birthday on object ref of heap os.
add_birthday(os, ref, birthday_str) == SetBirthday(os, ref, Birthday(birthday_str))

(***************************************************************************)
(* AddressBook                                                             *)
(***************************************************************************)
KeyIndex(d, k) == {i \in 1..Len(d) : d[i].key = k}

\* A dict that kept the value a key already has (setdefault).
DictSetDefault(d, k, v) ==
  IF KeyIndex(d, k) # {} THEN d ELSE Append(d, [key |-> k, ref |-> v])

\* d[k] = v of a dict: an existing key keeps its place, a new one goes last.
DictSet(d, k, v) ==
  IF KeyIndex(d, k) # {}
  THEN [i \in 1..Len(d) |-> IF d[i].key = k THEN [key |-> k, ref |-> v] ELSE d[i]]
  ELSE Append(d, [key |-> k, ref |-> v])

\* d.get(k)
DictGet(d, k) ==
  IF KeyIndex(d, k) # {} THEN Ref(d[CHOOSE i \in KeyIndex(d, k) : TRUE].ref) ELSE None

\* AddressBook.add_record
add_record(d, os, ref) == DictSet(d, os[ref].name, ref)

\* AddressBook.find
find(d, name) == DictGet(d, name)

WindowDays == 7

\* Lines 66-67, r the outcome of b_date.replace(year=today.year).
RollForward(r, today) ==
  IF ~r.ok THEN r
  ELSE IF DateLt(r.val, today) THEN replace_year(r.val, today.year + 1)
  ELSE r

\* Lines 65-67: the occurrence in today's year, or in the next when that is past.
ThisYear(b_date, today) == RollForward(replace_year(b_date, today.year), today)

\* Line 70, wd the weekday of b_this_year.
Shifted(b_this_year, wd) == AddDays(b_this_year, 7 - wd)

\* A shift that took only Sunday for the weekend (> 5 for >= 5).
CongratulateSundayOnly(b_this_year) ==
  IF weekday(b_this_year) > 5
  THEN Shifted(b_this_year, weekday(b_this_year))
  ELSE b_this_year

\* Lines 69-70: a Saturday or Sunday moves to the Monday after it.
Congratulate(b_this_year) ==
  IF weekday(b_this_year) >= 5
  THEN Shifted(b_this_year, weekday(b_this_year))
  ELSE b_this_year

\* Line 68, delta the days from today to the occurrence.
InWindow(delta) == 0 <= delta /\ delta < WindowDays

\* Lines 71-72: the entry of a record.
Entry(record, b_this_year) ==
  [name |-> record.name, congratulation_date |-> PyStr(strftime(b_this_year))]

\* Lines 68-72 for one record, b the outcome of lines 64-67: the list after,
\* or the exception.
Listed(record, b, today, upcoming) ==
  IF ~b.ok THEN b
  ELSE IF InWindow(DaysBetween(b.val, today))
  THEN Return(Append(upcoming, Entry(record, Congratulate(b.val))))
  ELSE Return(upcoming)

\* Line 64 and on, p the outcome of strptime on the record's birthday.
Visited(record, p, today, upcoming) ==
  IF ~p.ok THEN p ELSE Listed(record, ThisYear(p.val, today), today, upcoming)

\* Lines 63-72: the body of the loop for one record.
Visit(record, today, upcoming) ==
  IF record.birthday = None THEN Return(upcoming)
  ELSE Visited(record, strptime(record.birthday), today, upcoming)

\* The loop of get_upcoming_birthdays from item i on; r is the list so far or
\* the exception that ended the call.
RECURSIVE UpcomingFrom(_, _, _, _, _)
UpcomingFrom(d, os, i, today, r) ==
  IF ~r.ok \/ i > Len(d) THEN r
  ELSE UpcomingFrom(d, os, i + 1, today, Visit(os[d[i].ref], today, r.val))

\* AddressBook.get_upcoming_birthdays, with the date date.today() gives.
get_upcoming_birthdays(d, os, today) == UpcomingFrom(d, os, 1, today, Return(<<>>))

(***************************************************************************)
(* The `add` command                                                       *)
(***************************************************************************)
\* input_error: the listed exceptions become an "Error: ..." text.
input_error(out) ==
  IF ~out.ok /\ out.exc \in {"ValueError", "KeyError", "IndexError", "AttributeError"}
  THEN Return([type |-> "str", val |-> <<"Error: ", out.msg>>])
  ELSE out

\* Lines 126-127, r what record.add_phone(phone) did.
Added(d, r) ==
  [data |-> d, objs |-> r.objs,
   out |-> IF r.out.ok THEN Return(Text("Contact added/updated.")) ELSE r.out]

\* Lines 124-127 when find gave None: the new record goes into the book, then
\* the phone is added to it.
AddToNew(name, phone, d, os1) ==
  Added(add_record(d, os1, Len(os1)), add_phone(os1, Len(os1), phone))

\* Lines 123-127, found what book.find(name) gave.
AddTo(found, name, phone, d, os) ==
  IF found = None
  THEN AddToNew(name, phone, d, Append(os, Record(name).val))
  ELSE Added(d, add_phone(os, found.val, phone))

\* add_contact before input_error: the book, the heap and the outcome after.
add_contact_body(args, d, os) ==
  IF Len(args) # 2
  THEN [data |-> d, objs |-> os, out |-> Raise("ValueError", "values to unpack")]
  ELSE AddTo(find(d, args[1]), args[1], args[2], d, os)

\* The outcome through input_error.
Wrapped(r) == [r EXCEPT !.out = input_error(r.out)]

\* add_contact as the command loop calls it.
add_contact(args, d, os) == Wrapped(add_contact_body(args, d, os))

(***************************************************************************)
(* The address book as a state machine                                     *)
(***************************************************************************)
MaxObjs == 2

MaxFields == 1

Rep(c, n) == [i \in 1..n |-> c]

\* "0123456789" for PhoneLen = 10.
DigitRun == [i \in 1..PhoneLen |-> DigitChar((i - 1) % 10)]

Names == {PyStr(<<>>), PyStr(<<"a">>)}

\* Phone arguments that are str: "0123456789", ten superscript twos, nine
\* digits.
PhoneStrs ==
  {PyStr(DigitRun), PyStr(Rep("sup2", PhoneLen)), PyStr(Rep("5", PhoneLen - 1))}

PhoneArgs == PhoneStrs \cup {PyInt(DigitRun)}

BirthdayArgs ==
  {PyStr(<<"0", "1", ".", "0", "6", ".", "1", "9", "9", "0">>),
   PyStr(<<"3", "1", ".", "0", "4", ".", "1", "9", "9", "0">>)}

\* What the command loop can pass to add_contact: the pieces str.split()
\* gives, none of them empty.
ArgLists ==
  {<<>>}
    \cup {<<n>> : n \in Names \ {PyStr(<<>>)}}
    \cup {<<n, p>> : n \in Names \ {PyStr(<<>>)}, p \in PhoneStrs}
    \cup {<<n, p, p>> : n \in Names \ {PyStr(<<>>)}, p \in {PyStr(DigitRun)}}

\* The Phone and Birthday fields the records of heap os hold.
RECURSIVE TotalFields(_)
TotalFields(os) ==
  IF os = <<>> THEN 0
  ELSE Len(Head(os).phones) + (IF Head(os).birthday = None THEN 0 ELSE 1)
         + TotalFields(Tail(os))

Call(op, args, out) == [op |-> op, args |-> args, out |-> out]

NoAdd == [last |-> None, replaced |-> None]

\* The history after add_record of object ref under name.
Noted(h, name, ref) ==
  [h EXCEPT ![name] =
     [last |-> Ref(ref),
      replaced |-> IF @.last # None /\ @.last # Ref(ref) THEN @.last ELSE None]]

Init ==
  /\ objs = <<>>
  /\ data = <<>>
  /\ ret = Call("", <<>>, Return(None))
  /\ added = [n \in Names |-> NoAdd]

\* record = Record(name)
Created(name, r) ==
  /\ Len(objs) < MaxObjs
  /\ objs' = IF r.ok THEN Append(objs, r.val) ELSE objs
  /\ ret' = Call("Record", <<name>>, IF r.ok THEN Return(Ref(Len(objs) + 1)) ELSE r)
  /\ UNCHANGED <<data, added>>

NewRecord(name) == Created(name, Record(name))

\* A step to heap r.objs with outcome r.out, the book left alone.
RecordStep(op, args, r) ==
  /\ TotalFields(r.objs) <= MaxFields
  /\ objs' = r.objs
  /\ ret' = Call(op, args, r.out)
  /\ UNCHANGED <<data, added>>

\* record.add_phone(phone_number)
AddPhone(ref, phone_number) ==
  RecordStep("add_phone", <<phone_number>>, add_phone(objs, ref, phone_number))

\* record.add_birthday(birthday_str)
AddBirthday(ref, birthday_str) ==
  RecordStep("add_birthday", <<birthday_str>>,
             add_birthday(objs, ref, birthday_str))

\* book.add_record(record)
AddRecord(ref) ==
  /\ data' = add_record(data, objs, ref)
  /\ added' = Noted(added, objs[ref].name, ref)
  /\ ret' = Call("add_record", <<Ref(ref)>>, Return(None))
  /\ UNCHANGED objs

\* book.find(name)
Find(name) ==
  /\ ret' = Call("find", <<name>>, Return(find(data, name)))
  /\ UNCHANGED <<objs, data, added>>

CommandStep(args, r) ==
  /\ Len(r.objs) <= MaxObjs
  /\ TotalFields(r.objs) <= MaxFields
  /\ objs' = r.objs
  /\ data' = r.data
  /\ added' = IF Len(r.data) > Len(data)
              THEN Noted(added, args[1], Len(r.objs)) ELSE added
  /\ ret' = Call("add_contact", args, r.out)

\* add_contact(args, book)
AddContact(args) == CommandStep(args, add_contact(args, data, objs))

Next ==
  \/ \E name \in Names : NewRecord(name)
  \/ \E ref \in 1..Len(objs), p \in PhoneArgs : AddPhone(ref, p)
  \/ \E ref \in 1..Len(objs), b \in BirthdayArgs : AddBirthday(ref, b)
  \/ \E ref \in 1..Len(objs) : AddRecord(ref)
  \/ \E name \in Names : Find(name)
  \/ \E args \in ArgLists : AddContact(args)

Spec == Init /\ [][Next]_vars

(***************************************************************************)
(* Phone(value) over many values                                           *)
(***************************************************************************)
MaxExtra == 1

PhoneChars == {"0", "5", "9", "x", " ", "+", "sup2"}

\* Runs of one digit of every length up to PhoneLen + MaxExtra with one place
\* overwritten, a run of superscript twos, "0123456789", and values that are
\* no str.
PhoneInputs ==
  {PyStr([j \in 1..n |-> IF j = i THEN e ELSE c]) :
     c \in {"0", "5"}, n \in 1..(PhoneLen + MaxExtra), i \in 1..(PhoneLen + MaxExtra),
     e \in PhoneChars}
    \cup {PyStr(Rep("sup2", n)) : n \in 0..(PhoneLen + MaxExtra)}
    \cup PhoneArgs

\* Phone(value), the first call of a run: the calls do not affect one another.
NewPhone(value) ==
  /\ ret.op = ""
  /\ ret' = Call("Phone", <<value>>, Phone(value))
  /\ UNCHANGED <<objs, data, added>>

NextPhone == \E value \in PhoneInputs : NewPhone(value)

SpecPhone == Init /\ [][NextPhone]_vars

(***************************************************************************)
(* Birthday(value) over many texts                                         *)
(***************************************************************************)
MaxDay == 32

MaxMonth == 13

DayTexts ==
  {Pad2(n) : n \in 0..MaxDay} \cup {<<DigitChar(n)>> : n \in 0..9}
    \cup {<<" ", "1">>, <<"x", "1">>, <<"0", "0", "1">>, <<>>}

MonthTexts ==
  {Pad2(n) : n \in 0..MaxMonth} \cup {<<DigitChar(n)>> : n \in 0..9}

YearTexts ==
  {<<"1", "9", "9", "0">>, <<"2", "0", "0", "0">>, <<"1", "9", "0", "0">>,
   <<"0", "0", "0", "0">>}

\* Every day.month.year of the texts above; and, for a few of them, a year of
\* two or five digits, another separator, text after the year; and values
\* that are no str.
BirthdayInputs ==
  {PyStr(d \o <<".">> \o m \o <<".">> \o y) :
     d \in DayTexts, m \in MonthTexts, y \in YearTexts}
    \cup {PyStr(d \o sep \o m \o sep \o y \o tail) :
            d \in {<<"0", "1">>, <<"1">>}, m \in {<<"0", "6">>, <<"6">>},
            y \in {<<"1", "9", "9", "0">>, <<"9", "0">>, <<"1", "9", "9", "0", "1">>},
            sep \in {<<".">>, <<"-">>, <<>>}, tail \in {<<>>, <<" ">>, <<"x">>}}
    \cup {PyStr(<<>>), None, PyInt(<<"1">>)}

\* Birthday(value), the first call of a run.
NewBirthday(value) ==
  /\ ret.op = ""
  /\ ret' = Call("Birthday", <<value>>, Birthday(value))
  /\ UNCHANGED <<objs, data, added>>

NextBirthday == \E value \in BirthdayInputs : NewBirthday(value)

SpecBirthday == Init /\ [][NextBirthday]_vars

(***************************************************************************)
(* get_upcoming_birthdays over books and dates                             *)
(***************************************************************************)
NumYears == 2

\* Every date of NumYears years from 2023 on.
Todays ==
  {Date(y, m, d) : y \in 2023..(2023 + NumYears - 1), m \in 1..12, d \in 1..31}
    \cap {dt \in [year : 2023..(2023 + NumYears - 1), month : 1..12, day : 1..31] :
            IsDate(dt.year, dt.month, dt.day)}

\* Days and months of the birthdays in the books.
SampleDays ==
  {<<1, 1>>, <<2, 1>>, <<7, 1>>, <<28, 2>>, <<29, 2>>, <<1, 3>>, <<10, 6>>,
   <<15, 6>>, <<16, 6>>, <<25, 12>>, <<31, 12>>}

\* Texts add_birthday accepted: DD.MM.2000 of the days above.
BookBirthdays == {PyStr(strftime(Date(2000, p[2], p[1]))) : p \in SampleDays}

BookNames == {PyStr(<<"a">>), PyStr(<<"b">>)}

BookRecords ==
  {[name |-> n, phones |-> <<>>, birthday |-> b] :
     n \in BookNames, b \in BookBirthdays \cup {None}}

Heaps ==
  {<<>>} \cup {<<r>> : r \in BookRecords}
    \cup {h \in BookRecords \X BookRecords : h[1].name # h[2].name}

\* A book whose records were created, given birthdays and added in turn.
InitBirthdays ==
  /\ objs \in Heaps
  /\ data = [i \in 1..Len(objs) |-> [key |-> objs[i].name, ref |-> i]]
  /\ added = [n \in BookNames |->
                IF \E i \in 1..Len(objs) : objs[i].name = n
                THEN [last |-> Ref(CHOOSE i \in 1..Len(objs) : objs[i].name = n),
                      replaced |-> None]
                ELSE NoAdd]
  /\ ret = Call("", <<>>, Return(None))

\* book.get_upcoming_birthdays() on the day today, the first call of a run: it
\* leaves the book as it was, so a later call starts where this one did.
Birthdays(today) ==
  /\ ret.op = ""
  /\ ret' = Call("get_upcoming_birthdays", <<today>>,
                 get_upcoming_birthdays(data, objs, today))
  /\ UNCHANGED <<objs, data, added>>

NextBirthdays == \E today \in Todays : Birthdays(today)

SpecBirthdays == InitBirthdays /\ [][NextBirthdays]_vars

(***************************************************************************)
(* The properties                                                          *)
(***************************************************************************)
\* A str of exactly ten decimal digits.
TenDecimalDigits(v) ==
  /\ v.type = "str"
  /\ Len(v.val) = 10
  /\ \A i \in 1..Len(v.val) : v.val[i] \in AsciiDigits

NonEmptyStr(v) == v.type = "str" /\ Len(v.val) > 0

\* The date a text DD.MM.YYYY of ten characters denotes, read by position.
DateAt(s) ==
  Date(DigitVal(s[7]) * 1000 + DigitVal(s[8]) * 100 + DigitVal(s[9]) * 10 + DigitVal(s[10]),
       DigitVal(s[4]) * 10 + DigitVal(s[5]),
       DigitVal(s[1]) * 10 + DigitVal(s[2]))

\* Two digits, '.', two digits, '.', four digits.
HasDateForm(s) ==
  /\ Len(s) = 10
  /\ s[3] = "." /\ s[6] = "."
  /\ \A i \in {1, 2, 4, 5, 7, 8, 9, 10} : s[i] \in AsciiDigits

RealDate(dt) ==
  /\ dt.year >= 1
  /\ dt.month \in 1..12
  /\ dt.day >= 1 /\ dt.day <= DaysInMonth(dt.year, dt.month)

CanonicalDateText(v) == v.type = "str" /\ HasDateForm(v.val) /\ RealDate(DateAt(v.val))

Upcoming == ret.op = "get_upcoming_birthdays"

\* The entries the last call returned.
Entries == IF ret.out.ok THEN {ret.out.val[j] : j \in 1..Len(ret.out.val)} ELSE {}

\* The dates of the seven days from today on that have the day and month of
\* the birthday of record: its next occurrence, when that is 0..6 days ahead.
DueDates(record, today) ==
  {dt \in {AddDays(today, k) : k \in 0..6} :
     /\ dt.month = strptime(record.birthday).val.month
     /\ dt.day = strptime(record.birthday).val.day}

BookRecordsOf == {objs[data[i].ref] : i \in 1..Len(data)}

\* C1: get_upcoming_birthdays returns an entry for a record exactly when the
\* record has a birthday whose next occurrence on or after today is 0 to 6
\* days ahead.
C1_EntryExactlyWhenDue ==
  Upcoming =>
    \A record \in BookRecordsOf :
      (\E e \in Entries : e.name = record.name)
        <=> (record.birthday # None /\ DueDates(record, ret.args[1]) # {})

\* The date an entry shows.
ShownDate(e) == DateAt(e.congratulation_date.val)

\* What the weekend policy makes of an occurrence date.
AfterWeekend(occ) ==
  IF weekday(occ) = 5 THEN AddDays(occ, 2)
  ELSE IF weekday(occ) = 6 THEN AddDays(occ, 1)
  ELSE occ

\* C2: every entry returned shows the occurrence date itself when that is a
\* Monday to Friday and the first Monday after it when it is a Saturday (two
\* days on) or a Sunday (one day on); no entry shows a Saturday or a Sunday.
C2_WeekendShift ==
  Upcoming =>
    \A e \in Entries :
      /\ e.congratulation_date.type = "str"
      /\ HasDateForm(e.congratulation_date.val)
      /\ weekday(ShownDate(e)) \notin {5, 6}
      /\ \E record \in BookRecordsOf :
           /\ record.name = e.name
           /\ record.birthday # None
           /\ \E occ \in DueDates(record, ret.args[1]) :
                /\ ShownDate(e) = AfterWeekend(occ)
                /\ weekday(occ) >= 5 => weekday(ShownDate(e)) = 0

\* C2's case: a call returned one entry for a Saturday and one for a Sunday,
\* both showing the Monday after.
C2_SaturdayAndSundayShifted ==
  /\ Upcoming
  /\ \E e1, e2 \in Entries :
       /\ e1.congratulation_date = e2.congratulation_date
       /\ \E r1, r2 \in BookRecordsOf :
            /\ r1.name = e1.name /\ r2.name = e2.name
            /\ r1.birthday # None /\ r2.birthday # None
            /\ \E o1 \in DueDates(r1, ret.args[1]) : weekday(o1) = 5
            /\ \E o2 \in DueDates(r2, ret.args[1]) : weekday(o2) = 6

\* C3: on a book whose birthdays were all constructed successfully,
\* get_upcoming_birthdays returns a list and raises nothing, whatever the day,
\* a birthday of 29 February included.
C3_UpcomingNeverRaises == Upcoming => ret.out.ok

\* C4: Birthday accepts exactly the texts DD.MM.YYYY of a real date and fails
\* with the invalid-format error for every other text; the value it holds
\* reads as the zero-padded DD.MM.YYYY of its date.
C4_BirthdayExactlyCanonical ==
  (ret.op = "Birthday" /\ ret.args[1].type = "str") =>
    /\ ret.out.ok <=> CanonicalDateText(ret.args[1])
    /\ ~ret.out.ok => (ret.out.exc = "ValueError" /\ ret.out.msg = StrptimeError)
    /\ ret.out.ok =>
         FieldStr(ret.out.val).val = strftime(strptime(ret.out.val).val)

\* C5: Phone accepts exactly the str values of ten decimal digits, then holds
\* that very text, and fails with the invalid-format error for every other
\* value.
C5_PhoneExactlyTenDecimalDigits ==
  ret.op = "Phone" =>
    /\ ret.out.ok <=> TenDecimalDigits(ret.args[1])
    /\ ret.out.ok => ret.out.val = ret.args[1]
    /\ ~ret.out.ok => ret.out.exc = "ValueError"

RecordCall == ret.op = "Record"

C7_FindGivesLastAdded ==
  /\ \A n \in Names : find(data, n) = added[n].last
  /\ \A i, j \in 1..Len(data) : data[i].key = data[j].key => i = j
  /\ ret.op = "find" => (ret.out.ok /\ ret.out.val = added[ret.args[1]].last)

\* C7's case: find returned a record that replaced another of the same name.
C7_SecondReplacedFirst ==
  /\ ret.op = "find"
  /\ added[ret.args[1]].replaced # None
  /\ ret.out.val = added[ret.args[1]].last
  /\ ret.out.val # added[ret.args[1]].replaced

\* C8: every phone of every record is a str of ten decimal digits.
C8_PhonesAreTenDecimalDigits ==
  \A i \in 1..Len(objs) :
    \A j \in 1..Len(objs[i].phones) : TenDecimalDigits(objs[i].phones[j])

\* C9: add_phone with a valid phone appends that phone after the phones the
\* record has; with an invalid one it fails with the invalid-format error and
\* leaves every record as it was.
C9_AddPhoneAppendsOrFails ==
  [][\A ref \in 1..Len(objs), p \in PhoneArgs :
       AddPhone(ref, p) =>
         IF TenDecimalDigits(p)
         THEN /\ ret'.out.ok
              /\ objs' = [objs EXCEPT ![ref].phones = Append(@, p)]
         ELSE /\ ~ret'.out.ok
              /\ ret'.out.exc = "ValueError"
              /\ objs' = objs]_vars

ErrorText(out) ==
  /\ out.ok
  /\ out.val.type = "str"
  /\ Len(out.val.val) > 0
  /\ out.val.val[1] = "Error: "

\* C10: an `add` command that ends in an error (a phone Phone refuses, or not
\* two arguments) returns an error text, raises nothing and leaves the book
\* and every record as they were.
C10_FailedAddChangesNothing ==
  [][\A args \in ArgLists :
       (AddContact(args) /\ (Len(args) # 2 \/ ~Phone(args[2]).ok)) =>
         (ErrorText(ret'.out) /\ objs' = objs /\ data' = data)]_vars

====
